---------------------------- MODULE Spec2Model ----------------------------
(***************************************************************************)
(* Model of libs/hwui/AmbientShadow.cpp: AmbientShadow::createAmbientShadow *)
(* and its helpers calculateRayDirections, calculateIntersection and        *)
(* calculateNormal.                                                         *)
(*                                                                          *)
(* Numbers.  The code computes in float.  The model computes in exact       *)
(* rationals [n |-> numerator, d |-> denominator], d > 0, in lowest terms;  *)
(* rounding is not modelled.  The one non-finite value that the modelled    *)
(* inputs produce is +infinity (1.0 / 0 in the opacity expressions), which  *)
(* is the record [n |-> 1, d |-> 0].                                        *)
(*                                                                          *)
(* Uninitialised locals.  edgeIndex, edgeFraction and rayDistance are       *)
(* declared without initialiser (lines 72-74) and calculateIntersection     *)
(* returns without assigning them when no edge is accepted (line 214).      *)
(* Reading them is a read of an indeterminate value.  The three locals live *)
(* in storage that every iteration of the loop reuses: the model draws its  *)
(* content from the set Garbage at the first such read of a call, and from  *)
(* then on it holds what the loop last stored there.                        *)
(***************************************************************************)
EXTENDS Integers, FiniteSets, Sequences, TLC

(***************************************************************************)
(* Bounds of the model.                                                    *)
(***************************************************************************)
MaxHeight == 1
MaxFactor == 2

(***************************************************************************)
(* Exact arithmetic standing for the float arithmetic of the code.         *)
(***************************************************************************)
Abs(k) == IF k < 0 THEN -k ELSE k

RECURSIVE GCD(_, _)
GCD(a, b) == IF b = 0 THEN a ELSE GCD(b, a % b)

\* n / d in lowest terms with a positive denominator; d # 0.
Rat(n, d) ==
    LET g == GCD(Abs(n), Abs(d))
        s == IF d < 0 THEN -1 ELSE 1
    IN  [n |-> (s * n) \div g, d |-> (s * d) \div g]

Int2R(k) == [n |-> k, d |-> 1]
Zero == Int2R(0)
One == Int2R(1)
Infinity == [n |-> 1, d |-> 0]

RAdd(a, b) == Rat(a.n * b.d + b.n * a.d, a.d * b.d)
RSub(a, b) == Rat(a.n * b.d - b.n * a.d, a.d * b.d)
RMul(a, b) == Rat(a.n * b.n, a.d * b.d)
\* a / b in float: a finite quotient, or +infinity for a positive a over zero.
RDiv(a, b) == IF b.n = 0 THEN Infinity ELSE Rat(a.n * b.d, a.d * b.n)
RLess(a, b) == a.n * b.d < b.n * a.d
RLeq(a, b) == a.n * b.d <= b.n * a.d

\* sqrtf of a rational that is a perfect square (the only case the model's
\* ray directions produce: see calculateNormal).
ISqrt(k) == CHOOSE r \in 0..k : r * r = k
RSqrt(a) == [n |-> ISqrt(a.n), d |-> ISqrt(a.d)]

\* Vector2 with rational components.
Vec2(x, y) == [x |-> x, y |-> y]
\* Vector2::operator*(float), Vector2::operator+, Vector2::operator-.
VScale(v, s) == Vec2(RMul(v.x, s), RMul(v.y, s))
VAdd(v, w) == Vec2(RAdd(v.x, w.x), RAdd(v.y, w.y))
VSub(v, w) == Vec2(RSub(v.x, w.x), RSub(v.y, w.y))
\* Vector2::length(): sqrt(x * x + y * y).
VLength(v) == RSqrt(RAdd(RMul(v.x, v.x), RMul(v.y, v.y)))

(***************************************************************************)
(* Program constants.                                                      *)
(***************************************************************************)
\* const int rays = SHADOW_RAY_COUNT.  The model takes 4 rays, for which
\* sinf and cosf of the ray angles are the exact values 0, 1 and -1.
rays == 4
\* The one vertex count handed to alloc, whatever isCasterOpaque is.  The
\* umbra loop writes index 2 * rays + rayIndex, so it is three rings.
SHADOW_VERTEX_COUNT == 3 * rays

kVertexBufferMode_OnePolyRingShadow == "OnePolyRingShadow"
kVertexBufferMode_TwoPolyRingShadow == "TwoPolyRingShadow"

RayIndices == 0 .. (rays - 1)


(***************************************************************************)
(* calculateRayDirections (lines 154-161).                                 *)
(***************************************************************************)
\* sinf and cosf of q quarter turns.
QuarterSin(q) == CASE q % 4 = 0 -> 0 [] q % 4 = 1 -> 1 [] q % 4 = 2 -> 0 [] OTHER -> -1
QuarterCos(q) == CASE q % 4 = 0 -> 1 [] q % 4 = 1 -> 0 [] q % 4 = 2 -> -1 [] OTHER -> 0

\* dir[i] = (sinf(deltaAngle * i), cosf(deltaAngle * i)), deltaAngle = 2 pi / n;
\* deltaAngle * i is (4 * i) \div n quarter turns when n divides 4 * i.
calculateRayDirections(n) ==
    [i \in 0 .. (n - 1) |->
        Vec2(Int2R(QuarterSin((4 * i) \div n)), Int2R(QuarterCos((4 * i) \div n)))]

dir == calculateRayDirections(rays)

(***************************************************************************)
(* calculateIntersection (lines 178-215).                                  *)
(***************************************************************************)
\* vertices[idx]; a read outside the array yields some vertex.
VertexAt(verts, idx) ==
    IF idx \in DOMAIN verts THEN verts[idx] ELSE [x |-> 0, y |-> 0, z |-> 0]

\* The loop of lines 188-213 from the iteration with the given p1 and p2 on.
\* The result tells whether the out parameters were assigned, their values
\* if so, and the indices of vertices that were read.
RECURSIVE ScanEdges(_, _, _, _, _, _, _)
ScanEdges(verts, vertexCnt, start, d, p1, p2, reads) ==
    IF p2 >= vertexCnt
    THEN [assigned |-> FALSE, reads |-> reads]
    ELSE LET startX == Int2R(start.x)
             startY == Int2R(start.y)
             dirX == d.x
             dirY == d.y
             p1x == Int2R(VertexAt(verts, p1).x)
             p1y == Int2R(VertexAt(verts, p1).y)
             p2x == Int2R(VertexAt(verts, p2).x)
             p2y == Int2R(VertexAt(verts, p2).y)
             div == RSub(RAdd(RMul(dirX, RSub(p1y, p2y)), RMul(dirY, p2x)),
                         RMul(dirY, p1x))
             t == RDiv(RSub(RAdd(RMul(dirX, RSub(p1y, startY)), RMul(dirY, startX)),
                            RMul(dirY, p1x)), div)
             t2 == RDiv(RAdd(RAdd(RMul(p1x, RSub(startY, p2y)),
                                  RMul(p2x, RSub(p1y, startY))),
                             RMul(startX, RSub(p2y, p1y))), div)
             seen == reads \cup {p1, p2}
         IN  IF /\ div # Zero
                /\ RLess(Zero, t) /\ RLeq(t, One)
                /\ RLess(Zero, t2)
             THEN [assigned |-> TRUE, outEdgeIndex |-> p1, outRayDist |-> t2,
                   outEdgeFraction |-> t, reads |-> seen]
             ELSE ScanEdges(verts, vertexCnt, start, d, p2, p2 + 1, seen)

\* The search started from the edge from poly[0] to poly[1].
calculateIntersection_FromEdgeZero(verts, vertexCnt, start, d) ==
    ScanEdges(verts, vertexCnt, start, d, 0, 1, {})

\* Start the search from the last edge from poly[len-1] to poly[0].
calculateIntersection(verts, vertexCnt, start, d) ==
    ScanEdges(verts, vertexCnt, start, d, vertexCnt - 1, 0, {})

(***************************************************************************)
(* calculateNormal (lines 227-243): the value of the reference argument    *)
(* normal after the call.                                                  *)
(***************************************************************************)
\* The chord turned 90 degrees clockwise.
calculateNormal_Clockwise(n, currentRayIndex, dirs, rayDists, normal) ==
    LET preIndex == (currentRayIndex - 1 + n) % n
        postIndex == (currentRayIndex + 1) % n
        p1 == VScale(dirs[preIndex], rayDists[preIndex])
        p2 == VScale(dirs[postIndex], rayDists[postIndex])
        delta == VSub(p2, p1)
        len == VLength(delta)
    IN  IF len # Zero
        THEN Vec2(RDiv(delta.y, len), RSub(Zero, RDiv(delta.x, len)))
        ELSE normal

calculateNormal(n, currentRayIndex, dirs, rayDists, normal) ==
    LET preIndex == (currentRayIndex - 1 + n) % n
        postIndex == (currentRayIndex + 1) % n
        p1 == VScale(dirs[preIndex], rayDists[preIndex])
        p2 == VScale(dirs[postIndex], rayDists[postIndex])
        delta == VSub(p2, p1)
        len == VLength(delta)
    IN  IF len # Zero
        THEN Vec2(RSub(Zero, RDiv(delta.y, len)), RDiv(delta.x, len))
        ELSE normal

\* The indices of dir and rayDist that calculateNormal reads.
NormalIndices(n, currentRayIndex) ==
    {(currentRayIndex - 1 + n) % n, (currentRayIndex + 1) % n}

(***************************************************************************)
(* State of one call of createAmbientShadow.                               *)
(***************************************************************************)
VARIABLES
    isCasterOpaque, vertices, vertexCount, centroid3d, heightFactor, geomFactor,
    shadowVertexBuffer, \* the caller's VertexBuffer: its vertex count and the
                        \* vertices written so far, by index
    pc,                 \* "entry", "intersect", "alloc", "rings", "umbra", "done"
    mode,               \* the local mode; the returned value once pc = "done"
    i,                  \* index of the loop of lines 71-87
    rayIndex,           \* index of the loop of lines 102-125
    rayDist, rayHeight, \* the scratch arrays; Unset where not yet written
    hits,               \* per ray, what calculateIntersection did (history)
    used,               \* per ray, the locals read at lines 77-86 (history)
    normals,            \* per ray, the normal after calculateNormal (history)
    vertexReads,        \* indices of vertices[] read so far (history)
    scratchIdx,         \* indices of dir, rayDist, rayHeight used so far (history)
    allocs,             \* number of calls of shadowVertexBuffer.alloc (history)
    slot,               \* storage of the locals of lines 72-74; {} until read
    prev                \* outcomes of the earlier calls on the same input

inputs == <<isCasterOpaque, vertices, vertexCount, centroid3d, heightFactor, geomFactor>>
vars == <<isCasterOpaque, vertices, vertexCount, centroid3d, heightFactor, geomFactor,
          shadowVertexBuffer, pc, mode, i, rayIndex, rayDist, rayHeight, hits, used,
          normals, vertexReads, scratchIdx, allocs, slot, prev>>

Unset == "unset"

\* A VertexBuffer on which alloc was never called.
EmptyBuffer == [count |-> 0, verts |-> <<>>]

(***************************************************************************)
(* The inputs of the model.                                                *)
(***************************************************************************)
\* A sequence as a C array indexed from 0.
Array(seq) == [k \in 0 .. (Len(seq) - 1) |-> seq[k + 1]]

Square == Array(<<[x |-> -2, y |-> 2], [x |-> 2, y |-> 2],
                  [x |-> 2, y |-> -2], [x |-> -2, y |-> -2]>>)
Diamond == Array(<<[x |-> 0, y |-> 2], [x |-> 2, y |-> 0],
                   [x |-> 0, y |-> -2], [x |-> -2, y |-> 0]>>)
Triangle == Array(<<[x |-> 0, y |-> 2], [x |-> 2, y |-> -2], [x |-> -2, y |-> -2]>>)
Segment == Array(<<[x |-> -2, y |-> 0], [x |-> 2, y |-> 0]>>)
Outlines == {Square, Diamond, Triangle, Segment}

Heights == {0, MaxHeight}
CentroidHeights == {-MaxHeight, 0, MaxHeight}
Factors == {-1, 0, 1, MaxFactor}
\* Inside the outlines, off their centre, and outside them.
CentroidPoints == {[x |-> 0, y |-> 0], [x |-> 1, y |-> 0], [x |-> 5, y |-> 0]}

Polygons ==
    UNION {{[k \in DOMAIN o |-> [x |-> o[k].x, y |-> o[k].y, z |-> h[k]]] :
              h \in [DOMAIN o -> Heights]} : o \in Outlines}

\* The values an uninitialised edgeIndex, edgeFraction, rayDistance may hold:
\* an index below the array, inside it and above it.
Garbage ==
    {[edgeIndex |-> -1, edgeFraction |-> Int2R(0), rayDistance |-> Int2R(0)],
     [edgeIndex |-> 2, edgeFraction |-> Rat(1, 2), rayDistance |-> Int2R(1)],
     [edgeIndex |-> 7, edgeFraction |-> Int2R(-3), rayDistance |-> Int2R(-1)]}

Init ==
    /\ isCasterOpaque \in BOOLEAN
    /\ vertices \in Polygons
    /\ vertexCount = Cardinality(DOMAIN vertices)
    /\ \E c \in CentroidPoints, z \in CentroidHeights :
          centroid3d = [x |-> c.x, y |-> c.y, z |-> z]
    /\ heightFactor \in Factors
    /\ geomFactor \in Factors
    /\ shadowVertexBuffer = EmptyBuffer
    /\ pc = "entry"
    /\ mode = kVertexBufferMode_OnePolyRingShadow
    /\ i = 0
    /\ rayIndex = 0
    /\ rayDist = [r \in RayIndices |-> Unset]
    /\ rayHeight = [r \in RayIndices |-> Unset]
    /\ hits = [r \in RayIndices |-> Unset]
    /\ used = [r \in RayIndices |-> Unset]
    /\ normals = [r \in RayIndices |-> Unset]
    /\ vertexReads = {}
    /\ scratchIdx = {}
    /\ allocs = 0
    /\ slot = {}
    /\ prev = {}

(***************************************************************************)
(* createAmbientShadow (lines 47-146).                                     *)
(***************************************************************************)
\* The test of lines 53-54 without its last disjunct.
InvalidInput_NoGeomFactor(vertexCnt, hFactor, nRays, gFactor) ==
    vertexCnt < 3 \/ hFactor <= 0 \/ nRays <= 0

\* The test of lines 53-54.
InvalidInput(vertexCnt, hFactor, nRays, gFactor) ==
    vertexCnt < 3 \/ hFactor <= 0 \/ nRays <= 0 \/ gFactor <= 0

\* Lines 50-59: validate the inputs; return early, or go on to the loops.
Validate ==
    /\ pc = "entry"
    /\ mode' = kVertexBufferMode_OnePolyRingShadow
    /\ pc' = IF InvalidInput(vertexCount, heightFactor, rays, geomFactor)
             THEN "done" ELSE "intersect"
    /\ i' = 0
    /\ UNCHANGED <<inputs, shadowVertexBuffer, rayIndex, rayDist, rayHeight, hits,
                   used, normals, vertexReads, scratchIdx, allocs, slot, prev>>

\* Lines 78-83 testing the lower end only.
ClampEdgeIndex_LowerOnly(edgeIndex, vertexCnt) ==
    IF edgeIndex < 0 THEN 0 ELSE edgeIndex

\* Lines 78-83: an edge index outside the polygon is replaced by 0.
ClampEdgeIndex(edgeIndex, vertexCnt) ==
    IF edgeIndex < 0 \/ edgeIndex >= vertexCnt THEN 0 ELSE edgeIndex

\* Lines 84-86: the height along the edge.
InterpolateHeight(verts, vertexCnt, edgeIndex, edgeFraction) ==
    LET h1 == Int2R(VertexAt(verts, edgeIndex).z)
        h2 == Int2R(VertexAt(verts, (edgeIndex + 1) % vertexCnt).z)
    IN  RAdd(h1, RMul(edgeFraction, RSub(h2, h1)))

\* The vertices read by lines 84-85.
HeightReads(vertexCnt, edgeIndex) == {edgeIndex, (edgeIndex + 1) % vertexCnt}

\* What the locals edgeIndex, edgeFraction, rayDistance hold after the call
\* of lines 75-76: the values calculateIntersection assigned, or else what
\* their storage held before.
LocalsAfterCall(hit, before) ==
    IF hit.assigned
    THEN [edgeIndex |-> hit.outEdgeIndex, edgeFraction |-> hit.outEdgeFraction,
          rayDistance |-> hit.outRayDist]
    ELSE before

\* Lines 71-87, one iteration: intersect ray i with the polygon.
IntersectRay ==
    /\ pc = "intersect"
    /\ \E hit \in {calculateIntersection(vertices, vertexCount, centroid3d, dir[i])},
          before \in (IF slot = {} THEN Garbage ELSE slot) :
          \E g \in {LocalsAfterCall(hit, before)} :
             \E edgeIndex \in {ClampEdgeIndex(g.edgeIndex, vertexCount)} :
                /\ rayDist' = [rayDist EXCEPT ![i] = g.rayDistance]
                /\ rayHeight' = [rayHeight EXCEPT ![i] =
                       InterpolateHeight(vertices, vertexCount, edgeIndex,
                                         g.edgeFraction)]
                /\ hits' = [hits EXCEPT ![i] = hit]
                /\ used' = [used EXCEPT ![i] =
                       [edgeIndex |-> edgeIndex, edgeFraction |-> g.edgeFraction,
                        before |-> g.edgeIndex]]
                /\ slot' = {[g EXCEPT !.edgeIndex = edgeIndex]}
                /\ vertexReads' = vertexReads \cup hit.reads
                                      \cup HeightReads(vertexCount, edgeIndex)
                /\ scratchIdx' = scratchIdx \cup {i}
    /\ i' = i + 1
    /\ pc' = IF i + 1 < rays THEN "intersect" ELSE "alloc"
    /\ UNCHANGED <<inputs, shadowVertexBuffer, mode, rayIndex, normals, allocs, prev>>

\* An allocation one ring short.
AllocVertices_OneRingShort(n) == [count |-> n - rays, verts |-> <<>>]

\* VertexBuffer::alloc<AlphaVertex>(n): n vertices, none of them written.
AllocVertices(n) == [count |-> n, verts |-> <<>>]

\* Lines 91-92.
Alloc ==
    /\ pc = "alloc"
    /\ shadowVertexBuffer' = AllocVertices(SHADOW_VERTEX_COUNT)
    /\ allocs' = allocs + 1
    /\ rayIndex' = 0
    /\ pc' = "rings"
    /\ UNCHANGED <<inputs, mode, i, rayDist, rayHeight, hits, used, normals,
                   vertexReads, scratchIdx, slot, prev>>

\* AlphaVertex::set.
AlphaVertex(x, y, alpha) == [x |-> x, y |-> y, alpha |-> alpha]

\* shadowVertices[index] = v.
StoreVertex(buffer, index, v) ==
    [buffer EXCEPT !.verts = [k \in (DOMAIN buffer.verts) \cup {index} |->
                                 IF k = index THEN v ELSE buffer.verts[k]]]

\* 1.0 / (1 + height * heightFactor), lines 120 and 131.
Opacity(height, hFactor) ==
    RDiv(One, RAdd(One, RMul(height, Int2R(hFactor))))

\* Lines 108-124 with geomFactor left out of the expansion distance.
StoreRings_NoGeomFactor(buffer, r, normal, centroid2d, dist, height, hFactor, gFactor) ==
    LET intersection == VAdd(VScale(dir[r], dist), centroid2d)
        expansionDist == RMul(height, Int2R(hFactor))
        outer == AlphaVertex(RAdd(intersection.x, RMul(normal.x, expansionDist)),
                             RAdd(intersection.y, RMul(normal.y, expansionDist)),
                             Zero)
        inner == AlphaVertex(intersection.x, intersection.y,
                             Opacity(height, hFactor))
    IN  StoreVertex(StoreVertex(buffer, r, outer), rays + r, inner)

\* Lines 108-124: the two vertices of ray r, stored in the buffer.
StoreRings(buffer, r, normal, centroid2d, dist, height, hFactor, gFactor) ==
    LET intersection == VAdd(VScale(dir[r], dist), centroid2d)
        expansionDist == RMul(RMul(height, Int2R(hFactor)), Int2R(gFactor))
        outer == AlphaVertex(RAdd(intersection.x, RMul(normal.x, expansionDist)),
                             RAdd(intersection.y, RMul(normal.y, expansionDist)),
                             Zero)
        inner == AlphaVertex(intersection.x, intersection.y,
                             Opacity(height, hFactor))
    IN  StoreVertex(StoreVertex(buffer, r, outer), rays + r, inner)

\* Lines 102-125, one iteration.
WriteRings ==
    /\ pc = "rings"
    /\ \E normal \in {calculateNormal(rays, rayIndex, dir, rayDist, Vec2(One, Zero))} :
          /\ normals' = [normals EXCEPT ![rayIndex] = normal]
          /\ shadowVertexBuffer' =
                 StoreRings(shadowVertexBuffer, rayIndex, normal,
                            Vec2(Int2R(centroid3d.x), Int2R(centroid3d.y)),
                            rayDist[rayIndex], rayHeight[rayIndex],
                            heightFactor, geomFactor)
    /\ scratchIdx' = scratchIdx \cup {rayIndex} \cup NormalIndices(rays, rayIndex)
    /\ rayIndex' = rayIndex + 1
    /\ pc' = IF rayIndex + 1 < rays THEN "rings" ELSE "umbra"
    /\ UNCHANGED <<inputs, mode, i, rayDist, rayHeight, hits, used, vertexReads,
                   allocs, slot, prev>>

\* Lines 131-136: the centroid vertex stored at 2 * rays + r for every ray r.
RECURSIVE StoreUmbra(_, _, _)
StoreUmbra(buffer, centroidXYA, r) ==
    IF r >= rays THEN buffer
    ELSE StoreUmbra(StoreVertex(buffer, 2 * rays + r, centroidXYA), centroidXYA, r + 1)

\* Lines 129-137 with the loop of line 134 stopping one ray early.
FillUmbra_OneRayShort(buffer, opaque, centroid, hFactor) ==
    IF ~opaque
    THEN [mode |-> kVertexBufferMode_TwoPolyRingShadow,
          buffer |-> StoreUmbra(buffer,
                        AlphaVertex(Int2R(centroid.x), Int2R(centroid.y),
                                    Opacity(Int2R(centroid.z), hFactor)), 1)]
    ELSE [mode |-> kVertexBufferMode_OnePolyRingShadow, buffer |-> buffer]

\* Lines 129-137: buffer and mode after the umbra block.
FillUmbra(buffer, opaque, centroid, hFactor) ==
    IF ~opaque
    THEN [mode |-> kVertexBufferMode_TwoPolyRingShadow,
          buffer |-> StoreUmbra(buffer,
                        AlphaVertex(Int2R(centroid.x), Int2R(centroid.y),
                                    Opacity(Int2R(centroid.z), hFactor)), 0)]
    ELSE [mode |-> kVertexBufferMode_OnePolyRingShadow, buffer |-> buffer]

\* Lines 127-146: fill the umbra of a caster that is not opaque; return mode.
Finish ==
    /\ pc = "umbra"
    /\ LET out == FillUmbra(shadowVertexBuffer, isCasterOpaque, centroid3d,
                            heightFactor)
       IN  /\ mode' = out.mode
           /\ shadowVertexBuffer' = out.buffer
    /\ pc' = "done"
    /\ UNCHANGED <<inputs, i, rayIndex, rayDist, rayHeight, hits, used, normals,
                   vertexReads, scratchIdx, allocs, slot, prev>>

Next == Validate \/ IntersectRay \/ Alloc \/ WriteRings \/ Finish

Spec == Init /\ [][Next]_vars

(***************************************************************************)
(* A second call with the same arguments and a fresh VertexBuffer, the     *)
(* outcome of the first call kept for comparison.                          *)
(***************************************************************************)
CallAgain ==
    /\ pc = "done"
    /\ prev = {}
    /\ prev' = {[mode |-> mode, buffer |-> shadowVertexBuffer,
                 rayDist |-> rayDist, rayHeight |-> rayHeight]}
    /\ shadowVertexBuffer' = EmptyBuffer
    /\ pc' = "entry"
    /\ mode' = kVertexBufferMode_OnePolyRingShadow
    /\ i' = 0
    /\ rayIndex' = 0
    /\ rayDist' = [r \in RayIndices |-> Unset]
    /\ rayHeight' = [r \in RayIndices |-> Unset]
    /\ hits' = [r \in RayIndices |-> Unset]
    /\ used' = [r \in RayIndices |-> Unset]
    /\ normals' = [r \in RayIndices |-> Unset]
    /\ vertexReads' = {}
    /\ scratchIdx' = {}
    /\ allocs' = 0
    /\ slot' = {}
    /\ UNCHANGED inputs

NextTwice == Next \/ CallAgain

SpecTwice == Init /\ [][NextTwice]_vars

(***************************************************************************)
(* Properties.                                                             *)
(***************************************************************************)
Returned == pc = "done"
\* The rays whose iteration of the first loop is over.
Intersected == IF pc = "intersect" THEN 0 .. (i - 1)
               ELSE IF pc = "entry" THEN {}
               ELSE IF allocs = 0 /\ pc = "done" THEN {} ELSE RayIndices
\* The rays whose iteration of the second loop is over.
Ringed == IF pc = "rings" THEN 0 .. (rayIndex - 1)
          ELSE IF pc \in {"umbra", "done"} /\ allocs > 0 THEN RayIndices ELSE {}
\* The indices of the buffer that hold a written vertex.
Written == DOMAIN shadowVertexBuffer.verts

\* C1: a call with vertexCount < 3, heightFactor <= 0 or geomFactor <= 0
\* returns the one-poly-ring mode, never calls alloc, and leaves the buffer
\* as it was before the call.
C1_InvalidInputLeavesBuffer ==
    (Returned /\ (vertexCount < 3 \/ heightFactor <= 0 \/ geomFactor <= 0))
        => /\ mode = kVertexBufferMode_OnePolyRingShadow
           /\ allocs = 0
           /\ shadowVertexBuffer = EmptyBuffer

C1_Witness ==
    /\ Returned
    /\ vertexCount >= 3 /\ heightFactor > 0 /\ geomFactor <= 0
    /\ shadowVertexBuffer = EmptyBuffer

ValidInput == vertexCount >= 3 /\ heightFactor > 0 /\ geomFactor > 0

\* C2 as claimed: the buffer of a valid call holds 2 * rays vertices for an
\* opaque caster and 3 * rays vertices for a caster that is not opaque.
C2_CountFollowsOpacity ==
    (Returned /\ ValidInput)
        => shadowVertexBuffer.count = (IF isCasterOpaque THEN 2 * rays ELSE 3 * rays)

\* C2 amended: the buffer of a valid call holds 3 * rays vertices whatever the
\* opacity; the call writes exactly the first 2 * rays of them for an opaque
\* caster and all 3 * rays of them for a caster that is not opaque.
C2_CountFixedWritesFollowOpacity ==
    (Returned /\ ValidInput)
        => /\ shadowVertexBuffer.count = 3 * rays
           /\ Written = 0 .. ((IF isCasterOpaque THEN 2 * rays ELSE 3 * rays) - 1)

C2_Witness ==
    /\ Returned /\ ValidInput /\ isCasterOpaque
    /\ shadowVertexBuffer.count = 3 * rays
    /\ Written = 0 .. (2 * rays - 1)

\* alpha is 1 / (1 + height * heightFactor): their product is 1, or alpha is
\* the float quotient 1.0 / 0 where the denominator vanishes.
IsOpacityOf(alpha, height) ==
    LET den == RAdd(One, RMul(height, Int2R(heightFactor)))
    IN  IF den = Zero THEN alpha = Infinity
        ELSE alpha.d # 0 /\ RMul(alpha, den) = One

\* C3: a valid call returns the two-poly-ring mode exactly when the caster is
\* not opaque; then every vertex at an index in [2 * rays, 3 * rays) is
\* (centroid.x, centroid.y, 1 / (1 + centroid.z * heightFactor)); for an
\* opaque caster it returns the one-poly-ring mode and nothing is written
\* at an index >= 2 * rays.
C3_UmbraRing ==
    (Returned /\ ValidInput)
        => /\ mode = (IF isCasterOpaque THEN kVertexBufferMode_OnePolyRingShadow
                      ELSE kVertexBufferMode_TwoPolyRingShadow)
           /\ isCasterOpaque => \A k \in Written : k < 2 * rays
           /\ ~isCasterOpaque =>
                 \A k \in (2 * rays) .. (3 * rays - 1) :
                    /\ k \in Written
                    /\ shadowVertexBuffer.verts[k].x = Int2R(centroid3d.x)
                    /\ shadowVertexBuffer.verts[k].y = Int2R(centroid3d.y)
                    /\ IsOpacityOf(shadowVertexBuffer.verts[k].alpha,
                                   Int2R(centroid3d.z))

C3_Witness ==
    /\ Returned /\ ValidInput /\ ~isCasterOpaque
    /\ mode = kVertexBufferMode_TwoPolyRingShadow
    /\ centroid3d.x # 0 /\ centroid3d.z # 0
    /\ \A k \in (2 * rays) .. (3 * rays - 1) :
          k \in Written /\ shadowVertexBuffer.verts[k].x = Int2R(centroid3d.x)

\* C4 as claimed: a ray for which calculateIntersection assigned nothing gets
\* edge 0, its height interpolated between vertices 0 and 1.
C4_MissFallsBackToEdgeZero ==
    \A r \in Intersected :
        ~hits[r].assigned =>
            /\ used[r].edgeIndex = 0
            /\ rayHeight[r] = InterpolateHeight(vertices, vertexCount, 0,
                                                used[r].edgeFraction)

C4_Witness ==
    \E r \in Intersected :
        /\ ~hits[r].assigned
        /\ used[r].before \in 1 .. (vertexCount - 1)
        /\ used[r].edgeIndex = used[r].before

\* The edge from vertex e to its successor, and the place of the edge in the
\* order (last -> 0), (0 -> 1), ..., (n-2 -> n-1).
EdgeFrom(e) == Vec2(Int2R(vertices[e].x), Int2R(vertices[e].y))
EdgeTo(e) == EdgeFrom((e + 1) % vertexCount)
PlaceInOrder(e) == (e + 1) % vertexCount

\* The system  t * a - v * d = w  for edge e and ray r, with a the vector
\* along the edge and w the vector from the start of the edge to the ray's
\* origin, solved by Cramer's rule.
SystemDet(e, r) ==
    LET a == VSub(EdgeTo(e), EdgeFrom(e))
    IN  RSub(RMul(a.y, dir[r].x), RMul(a.x, dir[r].y))
SegmentParam(e, r) ==
    LET w == VSub(Vec2(Int2R(centroid3d.x), Int2R(centroid3d.y)), EdgeFrom(e))
    IN  RDiv(RSub(RMul(w.y, dir[r].x), RMul(w.x, dir[r].y)), SystemDet(e, r))
RayParam(e, r) ==
    LET a == VSub(EdgeTo(e), EdgeFrom(e))
        w == VSub(Vec2(Int2R(centroid3d.x), Int2R(centroid3d.y)), EdgeFrom(e))
    IN  RDiv(RSub(RMul(a.x, w.y), RMul(a.y, w.x)), SystemDet(e, r))
Accepted(e, r) ==
    /\ SystemDet(e, r) # Zero
    /\ RLess(Zero, SegmentParam(e, r)) /\ RLeq(SegmentParam(e, r), One)
    /\ RLess(Zero, RayParam(e, r))

\* C5: what calculateIntersection reports for a ray is the first edge, in the
\* order (last -> 0), (0 -> 1), ..., whose system has a non-zero determinant,
\* t in (0, 1] and v > 0: the index is the edge's 'from' vertex, and the
\* reported t and v satisfy origin + v * direction = p1 + t * (p2 - p1).  It
\* reports nothing only if no edge passes the test.
C5_FirstAcceptedEdge ==
    \A r \in Intersected :
        IF hits[r].assigned
        THEN LET e == hits[r].outEdgeIndex
                 t == hits[r].outEdgeFraction
                 v == hits[r].outRayDist
                 origin == Vec2(Int2R(centroid3d.x), Int2R(centroid3d.y))
             IN  /\ e \in 0 .. (vertexCount - 1)
                 /\ SystemDet(e, r) # Zero
                 /\ RLess(Zero, t) /\ RLeq(t, One)
                 /\ RLess(Zero, v)
                 /\ VAdd(origin, VScale(dir[r], v))
                        = VAdd(EdgeFrom(e), VScale(VSub(EdgeTo(e), EdgeFrom(e)), t))
                 /\ \A f \in 0 .. (vertexCount - 1) :
                        PlaceInOrder(f) < PlaceInOrder(e) => ~Accepted(f, r)
        ELSE \A f \in 0 .. (vertexCount - 1) : ~Accepted(f, r)

\* A ray that crosses two edges, the reported one being the edge from the
\* last vertex to vertex 0 and the farther of the two.
C5_Witness ==
    \E r \in Intersected :
        /\ hits[r].assigned
        /\ hits[r].outEdgeIndex = vertexCount - 1
        /\ \E f \in 0 .. (vertexCount - 1) :
              /\ f # hits[r].outEdgeIndex
              /\ Accepted(f, r)
              /\ RLess(RayParam(f, r), hits[r].outRayDist)

\* The point where ray r meets the polygon, and its expansion distance.
IntersectionPoint(r) ==
    VAdd(Vec2(Int2R(centroid3d.x), Int2R(centroid3d.y)), VScale(dir[r], rayDist[r]))
ExpansionDistance(r) ==
    RMul(rayHeight[r], Int2R(heightFactor * geomFactor))

\* C6: for every ray r of a valid call, vertex r of the buffer is
\* intersectionPoint[r] + normal[r] * (rayHeight[r] * heightFactor * geomFactor)
\* with alpha 0, and vertex rays + r is intersectionPoint[r] with alpha
\* 1 / (1 + rayHeight[r] * heightFactor).
C6_OuterAndInnerRing ==
    \A r \in Ringed :
        LET outer == shadowVertexBuffer.verts[r]
            inner == shadowVertexBuffer.verts[rays + r]
            p == IntersectionPoint(r)
        IN  /\ {r, rays + r} \subseteq Written
            /\ outer.x = RAdd(p.x, RMul(normals[r].x, ExpansionDistance(r)))
            /\ outer.y = RAdd(p.y, RMul(normals[r].y, ExpansionDistance(r)))
            /\ outer.alpha = Zero
            /\ inner.x = p.x
            /\ inner.y = p.y
            /\ IsOpacityOf(inner.alpha, rayHeight[r])

\* A returned call with a ray whose outer vertex is off its inner vertex.
C6_Witness ==
    /\ Returned /\ ValidInput /\ Ringed = RayIndices
    /\ \E r \in Ringed :
          /\ hits[r].assigned
          /\ ExpansionDistance(r) # Zero
          /\ shadowVertexBuffer.verts[r].x # shadowVertexBuffer.verts[rays + r].x
          /\ RLess(shadowVertexBuffer.verts[rays + r].alpha, One)

\* C7 as claimed: every vertex written by a valid call has alpha in [0, 1].
C7_AlphaInUnitInterval ==
    ValidInput =>
        \A k \in Written :
            /\ RLeq(Zero, shadowVertexBuffer.verts[k].alpha)
            /\ RLeq(shadowVertexBuffer.verts[k].alpha, One)

\* C8 as claimed: a second call with the same arguments returns the same
\* mode, fills the buffer with the same vertices and records the same
\* distance and height for every ray.
C8_SameInputSameOutput ==
    Returned =>
        \A p \in prev :
            /\ p.mode = mode
            /\ p.buffer = shadowVertexBuffer
            /\ p.rayDist = rayDist
            /\ p.rayHeight = rayHeight

\* The chord between the points of the two neighbours of ray r.
Chord(r) ==
    VSub(VScale(dir[(r + 1) % rays], rayDist[(r + 1) % rays]),
         VScale(dir[(r + rays - 1) % rays], rayDist[(r + rays - 1) % rays]))
Dot(v, w) == RAdd(RMul(v.x, w.x), RMul(v.y, w.y))
Cross(v, w) == RSub(RMul(v.x, w.y), RMul(v.y, w.x))

\* C9: where the chord between the neighbours' points has zero length the
\* normal of ray r stays (1, 0) and the outer vertex is the intersection
\* point moved by (1, 0) * expansionDistance; otherwise the normal is the
\* chord, normalized and turned 90 degrees counter-clockwise: a unit vector
\* perpendicular to the chord and to its left.
C9_NormalFromNeighbours ==
    \A r \in Ringed :
        IF Chord(r) = Vec2(Zero, Zero)
        THEN /\ normals[r] = Vec2(One, Zero)
             /\ shadowVertexBuffer.verts[r].x
                    = RAdd(IntersectionPoint(r).x, ExpansionDistance(r))
             /\ shadowVertexBuffer.verts[r].y = IntersectionPoint(r).y
        ELSE /\ Dot(normals[r], normals[r]) = One
             /\ Dot(normals[r], Chord(r)) = Zero
             /\ RLess(Zero, Cross(Chord(r), normals[r]))

\* A returned call with a ray whose neighbours' points coincide and whose
\* outer vertex is off its inner vertex, and a ray whose neighbours' do not.
C9_Witness ==
    /\ Returned /\ ValidInput /\ Ringed = RayIndices
    /\ \E r \in Ringed :
          /\ Chord(r) = Vec2(Zero, Zero)
          /\ ExpansionDistance(r) # Zero
          /\ normals[r] = Vec2(One, Zero)
    /\ \E r \in Ringed :
          /\ Chord(r) # Vec2(Zero, Zero)
          /\ normals[r] # Vec2(One, Zero)

\* C10: in a valid call every index used to read vertices[] lies in
\* [0, vertexCount), every index into dir, rayDist and rayHeight lies in
\* [0, rays), and every index written in the buffer lies in [0, 2 * rays) for
\* an opaque caster, in [0, 3 * rays) otherwise, and inside the allocation.
C10_IndicesInBounds ==
    /\ vertexReads \subseteq 0 .. (vertexCount - 1)
    /\ scratchIdx \subseteq 0 .. (rays - 1)
    /\ Written \subseteq 0 .. ((IF isCasterOpaque THEN 2 * rays ELSE 3 * rays) - 1)
    /\ Written \subseteq 0 .. (shadowVertexBuffer.count - 1)

\* A returned call in which a ray found no edge and the edge index held a
\* value outside the polygon before the test of line 78.
C10_Witness ==
    /\ Returned /\ ValidInput /\ ~isCasterOpaque
    /\ Written = 0 .. (3 * rays - 1)
    /\ \E r \in Intersected :
          /\ ~hits[r].assigned
          /\ used[r].before >= vertexCount
    /\ vertexReads = 0 .. (vertexCount - 1)

=============================================================================
